---- MODULE Spec2Model ----
(***************************************************************************)
(* A model of the RV32 simulator core (src/src/core.rs, src/src/mem.rs).   *)
(*                                                                         *)
(* A u32 is the pair <<hi, lo>> of its 16-bit halves; a u8 and a u16 are   *)
(* naturals; bitwise operations go bit by bit.  Memory and the CSR file are *)
(* kept sparsely: a function from the offsets (indices) that hold a        *)
(* non-zero value to that value, every other cell being 0, so that equal   *)
(* arrays have equal representations.                                      *)
(***************************************************************************)
EXTENDS Integers, Sequences, FiniteSets, TLC

----------------------------------------------------------------------------
(* u32 arithmetic, as Rust computes it *)

Pow2(n) == 2 ^ n

\* the u32 whose high and low 16-bit halves are hi and lo
W(hi, lo) == <<hi, lo>>

U32(n) == W(n \div 65536, n % 65536)

Zero == U32(0)

\* bit i of w, 0 <= i <= 31
Bit(w, i) ==
    IF i < 16 THEN (w[2] \div Pow2(i)) % 2 ELSE (w[1] \div Pow2(i - 16)) % 2

RECURSIVE SumBits(_, _, _)
SumBits(f(_), lo, n) ==
    IF n = 0 THEN 0 ELSE f(lo) + 2 * SumBits(f, lo + 1, n - 1)

\* the u32 whose bit i is f(i)
FromBits(f(_)) == W(SumBits(f, 16, 16), SumBits(f, 0, 16))

\* (w >> lo) & (2^n - 1), n <= 31
Field(w, lo, n) == SumBits(LAMBDA i : Bit(w, i), lo, n)

Lo16(w) == w[2]
Hi16(w) == w[1]

And(a, b) == FromBits(LAMBDA i : Bit(a, i) * Bit(b, i))
Or(a, b)  == FromBits(LAMBDA i : IF Bit(a, i) + Bit(b, i) > 0 THEN 1 ELSE 0)
Xor(a, b) == FromBits(LAMBDA i : (Bit(a, i) + Bit(b, i)) % 2)
Not(a)    == FromBits(LAMBDA i : 1 - Bit(a, i))

\* a << n, a >> n (logical) and (a as i32 >> n) as u32, for 0 <= n <= 31
Shl(a, n) == FromBits(LAMBDA i : IF i >= n THEN Bit(a, i - n) ELSE 0)
Shr(a, n) == FromBits(LAMBDA i : IF i + n <= 31 THEN Bit(a, i + n) ELSE 0)
Sar(a, n) == FromBits(LAMBDA i : IF i + n <= 31 THEN Bit(a, i + n) ELSE Bit(a, 31))

\* a + b mod 2^32, and whether the exact sum does not fit a u32
WrapAdd(a, b) ==
    LET lo == Lo16(a) + Lo16(b)
        hi == Hi16(a) + Hi16(b) + (lo \div 65536)
    IN  W(hi % 65536, lo % 65536)

AddOverflows(a, b) ==
    Hi16(a) + Hi16(b) + ((Lo16(a) + Lo16(b)) \div 65536) >= 65536

\* a < b as u32, and as i32
LtU(a, b) ==
    \/ Hi16(a) < Hi16(b)
    \/ Hi16(a) = Hi16(b) /\ Lo16(a) < Lo16(b)

LtS(a, b) ==
    IF Bit(a, 31) # Bit(b, 31) THEN Bit(a, 31) = 1 ELSE LtU(a, b)

\* a - b mod 2^32; the exact difference is negative iff a < b
WrapSub(a, b) == WrapAdd(WrapAdd(a, Not(b)), U32(1))

\* (x as i8 as i32 as u32) for a u8 x, (x as u32) for a u8 or u16 x
\* SignExtend8 without the sign: the byte zero-extended
SignExtend8_Zero(x) == FromBits(LAMBDA i : IF i < 8 THEN (x \div Pow2(i)) % 2 ELSE 0)

SignExtend8(x) == FromBits(LAMBDA i : IF i < 8 THEN (x \div Pow2(i)) % 2 ELSE x \div 128)
ZeroExtend(x) == U32(x)

----------------------------------------------------------------------------
(* Immediate reconstruction, core.rs lines 3-27 *)

read_imm_i(inst) == Sar(inst, 20)

read_imm_s(inst) ==
    Or(And(read_imm_i(inst), Not(U32(31))), And(Shr(inst, 7), U32(31)))

\* read_imm_b without the mask that clears bit 11 of the high part
read_imm_b_KeepBit11(inst) ==
    LET low  == And(And(Shr(inst, 7), U32(31)), Not(U32(1)))
        mid  == And(Shl(inst, 4), Shl(U32(1), 11))
        high == And(read_imm_i(inst), Not(U32(31)))
    IN  Or(Or(low, mid), high)

read_imm_b(inst) ==
    LET low  == And(And(Shr(inst, 7), U32(31)), Not(U32(1)))
        mid  == And(Shl(inst, 4), Shl(U32(1), 11))
        high == And(And(read_imm_i(inst), Not(U32(31))), Not(Shl(U32(1), 11)))
    IN  Or(Or(low, mid), high)

read_imm_u(inst) == And(inst, Not(U32(4095)))

read_imm_j(inst) ==
    LET a == And(read_imm_i(inst), W(65520, 2046))       \* 0xFFF007FE
        b == And(inst, W(15, 61440))                     \* 0x000FF000
        c == Shr(And(inst, Shl(U32(1), 20)), 9)
    IN  Or(Or(a, b), c)

----------------------------------------------------------------------------
(* The state of one Core, and of the process that owns it *)

VARIABLES
    mem,              \* Mem.mem: offset -> u8, the non-zero bytes only
    csrs,             \* Core.csrs: index -> u32, the non-zero slots only
    reg,              \* Core.reg: 0..31 -> u32
    pc,               \* Core.pc
    cycle_count,      \* Core.cycle_count
    status,           \* "running", "exited" (process::exit(0)) or the panic message
    halt_report,      \* what EBREAK printed: <<>> or <<[cycle_count, reg]>>
    overflow_checks,  \* whether the build panics on integer overflow (debug) or wraps
    last,             \* the last operation applied, the core before it, the counts so far
    probe             \* an immediate decoder applied to one word, for the decoders alone

vars == <<mem, csrs, reg, pc, cycle_count, status, halt_report, overflow_checks,
          last, probe>>

MEMORY_SIZE == 16777216

NUM_CSRS == 4096

NUM_REGS == 32

Base == W(32768, 0)             \* 0x8000_0000

\* the arrays mem.mem and csrs, read and written through their sparse form
ArrGet(a, i, zero) == IF i \in DOMAIN a THEN a[i] ELSE zero

ArrSet(a, i, v, zero) ==
    IF v = zero
    THEN [j \in DOMAIN a \ {i} |-> a[j]]
    ELSE [j \in DOMAIN a \cup {i} |-> IF j = i THEN v ELSE a[j]]

EmptyArr == [j \in {} |-> 0]

\* addr & 0x80000000 != 0, and addr as usize & 0x7FFFFFFF
Mapped(addr) == Bit(addr, 31) = 1
Offset(addr) == Field(addr, 0, 31)

PanicIndex    == "panic: index out of bounds"
PanicAdd      == "panic: attempt to add with overflow"
PanicSub      == "panic: attempt to subtract with overflow"
PanicOpcode   == "panic: Hit invalid opcode"
PanicTodo     == "panic: not yet implemented: ECALL"
PanicExplicit == "panic: explicit panic"
PanicAmoWidth == "panic: Invalid width for AMO"
PanicAmoOp    == "panic: unknown AMO subtype"

\* a + b on u32: the build either panics on overflow or wraps
Add(a, b) ==
    [ok |-> ~(overflow_checks /\ AddOverflows(a, b)), val |-> WrapAdd(a, b),
     err |-> PanicAdd]

Sub(a, b) ==
    [ok |-> ~(overflow_checks /\ LtU(a, b)), val |-> WrapSub(a, b),
     err |-> PanicSub]

----------------------------------------------------------------------------
(* Mem, mem.rs lines 15-52.  A load gives [ok, val, err], a store          *)
(* [ok, mem, err]: ok is FALSE when the call panics, and mem is then the   *)
(* array as the panic leaves it.                                           *)

\* lb with unmapped addresses reading as 0xFF
lb_UnmappedOnes(m, addr) ==
    IF Mapped(addr)
    THEN IF Offset(addr) < MEMORY_SIZE
         THEN [ok |-> TRUE, val |-> ArrGet(m, Offset(addr), 0), err |-> ""]
         ELSE [ok |-> FALSE, val |-> 0, err |-> PanicIndex]
    ELSE [ok |-> TRUE, val |-> 255, err |-> ""]

lb(m, addr) ==
    IF Mapped(addr)
    THEN IF Offset(addr) < MEMORY_SIZE
         THEN [ok |-> TRUE, val |-> ArrGet(m, Offset(addr), 0), err |-> ""]
         ELSE [ok |-> FALSE, val |-> 0, err |-> PanicIndex]
    ELSE [ok |-> TRUE, val |-> 0, err |-> ""]

\* sb without the test of bit 31: every address indexes the array
sb_AlwaysMapped(m, addr, val) ==
    IF Offset(addr) < MEMORY_SIZE
    THEN [ok |-> TRUE, mem |-> ArrSet(m, Offset(addr), val, 0), err |-> ""]
    ELSE [ok |-> FALSE, mem |-> m, err |-> PanicIndex]

sb(m, addr, val) ==
    IF Mapped(addr)
    THEN IF Offset(addr) < MEMORY_SIZE
         THEN [ok |-> TRUE, mem |-> ArrSet(m, Offset(addr), val, 0), err |-> ""]
         ELSE [ok |-> FALSE, mem |-> m, err |-> PanicIndex]
    ELSE [ok |-> TRUE, mem |-> m, err |-> ""]

\* self.lb(addr + k)
lbAt(m, addr, k) ==
    LET a == Add(addr, U32(k))
    IN  IF a.ok THEN lb(m, a.val) ELSE [ok |-> FALSE, val |-> 0, err |-> a.err]

\* self.sb(addr + k, val), run when the statements before it did not panic
sbAt(r, addr, k, val) ==
    IF ~r.ok THEN r
    ELSE LET a == Add(addr, U32(k))
         IN  IF a.ok THEN sb(r.mem, a.val, val)
                     ELSE [ok |-> FALSE, mem |-> r.mem, err |-> a.err]

lh(m, addr) ==
    LET b1 == lbAt(m, addr, 1)
        b0 == lb(m, addr)
    IN  IF ~b1.ok THEN b1
        ELSE IF ~b0.ok THEN b0
        ELSE [ok |-> TRUE, val |-> b1.val * 256 + b0.val, err |-> ""]

lw(m, addr) ==
    LET b3 == lbAt(m, addr, 3)
        b2 == lbAt(m, addr, 2)
        b1 == lbAt(m, addr, 1)
        b0 == lb(m, addr)
    IN  IF ~b3.ok THEN [ok |-> FALSE, val |-> Zero, err |-> b3.err]
        ELSE IF ~b2.ok THEN [ok |-> FALSE, val |-> Zero, err |-> b2.err]
        ELSE IF ~b1.ok THEN [ok |-> FALSE, val |-> Zero, err |-> b1.err]
        ELSE IF ~b0.ok THEN [ok |-> FALSE, val |-> Zero, err |-> b0.err]
        ELSE [ok |-> TRUE, err |-> "",
              val |-> W(b3.val * 256 + b2.val, b1.val * 256 + b0.val)]

sh(m, addr, val) ==
    sbAt(sb(m, addr, val % 256), addr, 1, val \div 256)

\* sw with the most significant byte at the lowest address
sw_BigEndian(m, addr, val) ==
    sbAt(sbAt(sbAt(sb(m, addr, Field(val, 24, 8)),
                   addr, 1, Field(val, 16, 8)),
              addr, 2, Field(val, 8, 8)),
         addr, 3, Field(val, 0, 8))

sw(m, addr, val) ==
    sbAt(sbAt(sbAt(sb(m, addr, Field(val, 0, 8)),
                   addr, 1, Field(val, 8, 8)),
              addr, 2, Field(val, 16, 8)),
         addr, 3, Field(val, 24, 8))

----------------------------------------------------------------------------
(* Core::step, core.rs lines 83-325.  step(c) gives the core as the call   *)
(* leaves it and how the call ended: "retired" (lines 322-324 ran),        *)
(* "aborted" (an early return), "exited" (EBREAK) or the panic message.    *)

One == U32(1)
Four == U32(4)

BoolWord(b) == IF b THEN One ELSE Zero

\* Retire without line 324
Retire_KeepX0(c) ==
    [core |-> [c EXCEPT !.cycle_count = @ + 1], outcome |-> "retired", report |-> <<>>]

\* lines 322-324
Retire(c) ==
    [core |-> [c EXCEPT !.cycle_count = @ + 1, !.reg[0] = Zero],
     outcome |-> "retired", report |-> <<>>]

\* an early return that still counts the cycle
Abort_Counted(c) ==
    [core |-> [c EXCEPT !.cycle_count = @ + 1], outcome |-> "aborted", report |-> <<>>]

Abort(c) == [core |-> c, outcome |-> "aborted", report |-> <<>>]

\* a panic that returns from step like an early return, the engine running on
Panic_Returns(c, msg) == [core |-> c, outcome |-> "aborted", report |-> <<>>]

Panic(c, msg) == [core |-> c, outcome |-> msg, report |-> <<>>]

\* lines 233-239
DebugHalt(c) ==
    [core |-> c, outcome |-> "exited",
     report |-> <<[cycle_count |-> c.cycle_count, reg |-> c.reg]>>]

\* self.pc += delta, then retirement
Advance(c, delta) ==
    LET p == Add(c.pc, delta)
    IN  IF p.ok THEN Retire([c EXCEPT !.pc = p.val]) ELSE Panic(c, p.err)

\* a write of rd that also lands in x31
SetRd_Clobber(c, rd_raw, v) == [c EXCEPT !.reg[rd_raw] = v, !.reg[31] = v]

\* *rd = v
SetRd(c, rd_raw, v) == [c EXCEPT !.reg[rd_raw] = v]

\* lines 118-132
ExecLoad(c, inst, rs1, rd_raw, funct3) ==
    LET addr == Add(rs1, read_imm_i(inst))
        b == lb(c.mem, addr.val)
        h == lh(c.mem, addr.val)
        w == lw(c.mem, addr.val)
    IN  IF ~addr.ok THEN Panic(c, addr.err)
        ELSE CASE funct3 = 0 ->
                    IF b.ok THEN Advance(SetRd(c, rd_raw, SignExtend8(b.val)), Four)
                            ELSE Panic(c, b.err)
               [] funct3 = 1 ->
                    IF h.ok THEN Advance(SetRd(c, rd_raw, ZeroExtend(h.val)), Four)
                            ELSE Panic(c, h.err)
               [] funct3 = 2 ->
                    IF w.ok THEN Advance(SetRd(c, rd_raw, w.val), Four)
                            ELSE Panic(c, w.err)
               [] funct3 = 4 ->
                    IF b.ok THEN Advance(SetRd(c, rd_raw, ZeroExtend(b.val)), Four)
                            ELSE Panic(c, b.err)
               [] funct3 = 5 ->
                    IF h.ok THEN Advance(SetRd(c, rd_raw, ZeroExtend(h.val)), Four)
                            ELSE Panic(c, h.err)
               [] OTHER -> Abort(c)

\* lines 133-145
ExecStore(c, inst, rs1, rs2, funct3) ==
    LET addr == Add(rs1, read_imm_s(inst))
        r == CASE funct3 = 0 -> sb(c.mem, addr.val, Field(rs2, 0, 8))
               [] funct3 = 1 -> sh(c.mem, addr.val, Field(rs2, 0, 16))
               [] OTHER      -> sw(c.mem, addr.val, rs2)
    IN  IF ~addr.ok THEN Panic(c, addr.err)
        ELSE IF funct3 \notin {0, 1, 2} THEN Abort(c)
        ELSE IF r.ok THEN Advance([c EXCEPT !.mem = r.mem], Four)
        ELSE Panic([c EXCEPT !.mem = r.mem], r.err)

\* lines 147-158
BranchCond(funct3, rs1, rs2) ==
    CASE funct3 = 0 -> rs1 = rs2
      [] funct3 = 1 -> rs1 # rs2
      [] funct3 = 4 -> LtS(rs1, rs2)
      [] funct3 = 5 -> ~LtS(rs1, rs2)
      [] funct3 = 6 -> LtU(rs1, rs2)
      [] OTHER      -> ~LtU(rs1, rs2)

\* ExecBranch skipping an unrecognised funct3 instead of returning
ExecBranch_Skip(c, inst, rs1, rs2, funct3) ==
    IF funct3 \notin {2, 3} /\ BranchCond(funct3, rs1, rs2)
    THEN Advance(c, read_imm_b(inst))
    ELSE Advance(c, Four)

\* lines 146-164
ExecBranch(c, inst, rs1, rs2, funct3) ==
    IF funct3 \in {2, 3} THEN Abort(c)
    ELSE IF BranchCond(funct3, rs1, rs2) THEN Advance(c, read_imm_b(inst))
    ELSE Advance(c, Four)

\* lines 165-168
ExecJalr(c, inst, rs1, rd_raw) ==
    LET link == Add(c.pc, Four)
        target == Add(rs1, And(read_imm_i(inst), Not(One)))
        c1 == SetRd(c, rd_raw, link.val)
    IN  IF ~link.ok THEN Panic(c, link.err)
        ELSE IF ~target.ok THEN Panic(c1, target.err)
        ELSE Retire([c1 EXCEPT !.pc = target.val])

\* lines 169-172
ExecJal(c, inst, rd_raw) ==
    LET link == Add(c.pc, Four)
    IN  IF ~link.ok THEN Panic(c, link.err)
        ELSE Advance(SetRd(c, rd_raw, link.val), read_imm_j(inst))

\* lines 173-176
ExecMiscMem(c) == Advance(c, Four)

\* the shifts of lines 186-194 and 213-221
ShiftRight(rs1, shamt, arithmetic) ==
    IF arithmetic THEN Sar(rs1, shamt) ELSE Shr(rs1, shamt)

\* lines 177-198
ExecOpImm(c, inst, rs1, rd_raw, funct3) ==
    LET imm == read_imm_i(inst)
        sum == Add(rs1, imm)
        v == CASE funct3 = 0 -> sum.val
               [] funct3 = 2 -> BoolWord(LtS(rs1, imm))
               [] funct3 = 3 -> BoolWord(LtU(rs1, imm))
               [] funct3 = 4 -> Xor(rs1, imm)
               [] funct3 = 6 -> Or(rs1, imm)
               [] funct3 = 7 -> And(rs1, imm)
               [] funct3 = 1 -> Shl(rs1, Field(imm, 0, 5))
               [] OTHER      -> ShiftRight(rs1, Field(imm, 0, 5), Bit(imm, 10) = 1)
    IN  IF funct3 = 0 /\ ~sum.ok THEN Panic(c, sum.err)
        ELSE Advance(SetRd(c, rd_raw, v), Four)

\* lines 199-225
ExecOp(c, rs1, rs2, rd_raw, funct3, funct7) ==
    LET alt == (funct7 \div 32) % 2 = 1
        sum == IF alt THEN Sub(rs1, rs2) ELSE Add(rs1, rs2)
        v == CASE funct3 = 0 -> sum.val
               [] funct3 = 2 -> BoolWord(LtS(rs1, rs2))
               [] funct3 = 3 -> BoolWord(LtU(rs1, rs2))
               [] funct3 = 4 -> Xor(rs1, rs2)
               [] funct3 = 6 -> Or(rs1, rs2)
               [] funct3 = 7 -> And(rs1, rs2)
               [] funct3 = 1 -> Shl(rs1, Field(rs2, 0, 5))
               [] OTHER      -> ShiftRight(rs1, Field(rs2, 0, 5), alt)
    IN  IF funct3 = 0 /\ ~sum.ok THEN Panic(c, sum.err)
        ELSE Advance(SetRd(c, rd_raw, v), Four)

\* CsrUpdate with the clear forms keeping the operand's bits, not clearing them
CsrUpdate_ClearKeeps(funct3, temp, rs1, rs1_raw) ==
    CASE funct3 = 1 -> rs1
      [] funct3 = 2 -> Or(temp, rs1)
      [] funct3 = 3 -> And(temp, rs1)
      [] funct3 = 5 -> U32(rs1_raw)
      [] funct3 = 6 -> Or(temp, U32(rs1_raw))
      [] OTHER      -> And(temp, U32(rs1_raw))

\* lines 244-273: the value a CSR form leaves in the slot
CsrUpdate(funct3, temp, rs1, rs1_raw) ==
    CASE funct3 = 1 -> rs1
      [] funct3 = 2 -> Or(temp, rs1)
      [] funct3 = 3 -> And(temp, Not(rs1))
      [] funct3 = 5 -> U32(rs1_raw)
      [] funct3 = 6 -> Or(temp, U32(rs1_raw))
      [] OTHER      -> And(temp, Not(U32(rs1_raw)))

\* ExecSystem with ECALL silently ignored: it retires like a no-op
ExecSystem_EcallIgnored(c, inst, rs1, rs1_raw, rd_raw, funct3) ==
    LET funct12 == Field(inst, 20, 12)
        temp == ArrGet(c.csrs, funct12, Zero)
        new == CsrUpdate(funct3, temp, rs1, rs1_raw)
    IN  CASE funct3 = 0 ->
               IF funct12 = 0 THEN Advance(c, Four)
               ELSE IF funct12 = 1 THEN DebugHalt(c)
               ELSE Panic(c, PanicExplicit)
          [] funct3 = 4 -> Panic(c, PanicExplicit)
          [] OTHER ->
               Advance(SetRd([c EXCEPT !.csrs = ArrSet(@, funct12, new, Zero)],
                             rd_raw, temp),
                       Four)

\* lines 226-277
ExecSystem(c, inst, rs1, rs1_raw, rd_raw, funct3) ==
    LET funct12 == Field(inst, 20, 12)
        temp == ArrGet(c.csrs, funct12, Zero)
        new == CsrUpdate(funct3, temp, rs1, rs1_raw)
    IN  CASE funct3 = 0 ->
               IF funct12 = 0 THEN Panic(c, PanicTodo)
               ELSE IF funct12 = 1 THEN DebugHalt(c)
               ELSE Panic(c, PanicExplicit)
          [] funct3 = 4 -> Panic(c, PanicExplicit)
          [] OTHER ->
               Advance(SetRd([c EXCEPT !.csrs = ArrSet(@, funct12, new, Zero)],
                             rd_raw, temp),
                       Four)

\* lines 278-281
ExecAuipc(c, inst, rd_raw) ==
    LET v == Add(c.pc, read_imm_u(inst))
    IN  IF v.ok THEN Advance(SetRd(c, rd_raw, v.val), Four) ELSE Panic(c, v.err)

\* lines 282-285
ExecLui(c, inst, rd_raw) == Advance(SetRd(c, rd_raw, read_imm_u(inst)), Four)

MinS(a, b) == IF LtS(b, a) THEN b ELSE a
MaxS(a, b) == IF LtS(a, b) THEN b ELSE a
MinU(a, b) == IF LtU(b, a) THEN b ELSE a
MaxU(a, b) == IF LtU(a, b) THEN b ELSE a

AmoKnown == {0, 4, 12, 8, 16, 20, 24, 28}

\* lines 304-314, for a subtype x in AmoKnown other than add
AmoNew(x, temp, rs2) ==
    CASE x = 4  -> Xor(temp, rs2)
      [] x = 12 -> And(temp, rs2)
      [] x = 8  -> Or(temp, rs2)
      [] x = 16 -> MinS(temp, rs2)
      [] x = 20 -> MaxS(temp, rs2)
      [] x = 24 -> MinU(temp, rs2)
      [] OTHER  -> MaxU(temp, rs2)

\* ExecAmo with a store-conditional that fails: nothing stored, 1 in rd
ExecAmo_ScFails(c, rs1, rs2, rd_raw, funct3, funct7) ==
    LET x == funct7 \div 4
        temp == lw(c.mem, rs1)
        st == sw(c.mem, rs1, rs2)
        c1 == SetRd(c, rd_raw, temp.val)
        sum == Add(temp.val, rs2)
        new == IF x = 0 THEN sum.val ELSE AmoNew(x, temp.val, rs2)
        st2 == sw(c.mem, rs1, new)
    IN  IF funct3 # 2 THEN Panic(c, PanicAmoWidth)
        ELSE CASE x = 2 ->
                    IF temp.ok THEN Advance(c1, Four) ELSE Panic(c, temp.err)
               [] x = 3 -> Advance(SetRd(c, rd_raw, One), Four)
               [] x = 1 ->
                    IF ~temp.ok THEN Panic(c, temp.err)
                    ELSE IF ~st.ok THEN Panic([c EXCEPT !.mem = st.mem], st.err)
                    ELSE Advance(SetRd([c EXCEPT !.mem = st.mem], rd_raw, temp.val), Four)
               [] OTHER ->
                    IF ~temp.ok THEN Panic(c, temp.err)
                    ELSE IF x \notin AmoKnown THEN Panic(c1, PanicAmoOp)
                    ELSE IF x = 0 /\ ~sum.ok THEN Panic(c1, sum.err)
                    ELSE IF ~st2.ok THEN Panic([c1 EXCEPT !.mem = st2.mem], st2.err)
                    ELSE Advance([c1 EXCEPT !.mem = st2.mem], Four)

\* lines 286-319
ExecAmo(c, rs1, rs2, rd_raw, funct3, funct7) ==
    LET x == funct7 \div 4
        temp == lw(c.mem, rs1)
        st == sw(c.mem, rs1, rs2)
        c1 == SetRd(c, rd_raw, temp.val)
        sum == Add(temp.val, rs2)
        new == IF x = 0 THEN sum.val ELSE AmoNew(x, temp.val, rs2)
        st2 == sw(c.mem, rs1, new)
    IN  IF funct3 # 2 THEN Panic(c, PanicAmoWidth)
        ELSE CASE x = 2 ->
                    IF temp.ok THEN Advance(c1, Four) ELSE Panic(c, temp.err)
               [] x = 3 ->
                    IF st.ok THEN Advance(SetRd([c EXCEPT !.mem = st.mem], rd_raw, Zero), Four)
                             ELSE Panic([c EXCEPT !.mem = st.mem], st.err)
               [] x = 1 ->
                    IF ~temp.ok THEN Panic(c, temp.err)
                    ELSE IF ~st.ok THEN Panic([c EXCEPT !.mem = st.mem], st.err)
                    ELSE Advance(SetRd([c EXCEPT !.mem = st.mem], rd_raw, temp.val), Four)
               [] OTHER ->
                    IF ~temp.ok THEN Panic(c, temp.err)
                    ELSE IF x \notin AmoKnown THEN Panic(c1, PanicAmoOp)
                    ELSE IF x = 0 /\ ~sum.ok THEN Panic(c1, sum.err)
                    ELSE IF ~st2.ok THEN Panic([c1 EXCEPT !.mem = st2.mem], st2.err)
                    ELSE Advance([c1 EXCEPT !.mem = st2.mem], Four)

\* lines 96-110: the opcode class of bits [6:2]
Decode(inst) ==
    LET x == Field(inst, 2, 5)
    IN  CASE x = 0  -> "Load"
          [] x = 8  -> "Store"
          [] x = 24 -> "Branch"
          [] x = 25 -> "Jalr"
          [] x = 27 -> "Jal"
          [] x = 3  -> "MiscMem"
          [] x = 4  -> "OpImm"
          [] x = 12 -> "Op"
          [] x = 28 -> "System"
          [] x = 5  -> "Auipc"
          [] x = 13 -> "Lui"
          [] x = 11 -> "Amo"
          [] OTHER  -> "invalid"

\* lines 86-94 then the dispatch of lines 117-320, on the fetched word
Execute(c, inst) ==
    LET rs1_raw == Field(inst, 15, 5)
        rs2_raw == Field(inst, 20, 5)
        rd_raw  == Field(inst, 7, 5)
        funct3  == Field(inst, 12, 3)
        funct7  == Field(inst, 25, 7)
        rs1     == c.reg[rs1_raw]
        rs2     == c.reg[rs2_raw]
        opcode  == Decode(inst)
    IN  CASE opcode = "Load"    -> ExecLoad(c, inst, rs1, rd_raw, funct3)
          [] opcode = "Store"   -> ExecStore(c, inst, rs1, rs2, funct3)
          [] opcode = "Branch"  -> ExecBranch(c, inst, rs1, rs2, funct3)
          [] opcode = "Jalr"    -> ExecJalr(c, inst, rs1, rd_raw)
          [] opcode = "Jal"     -> ExecJal(c, inst, rd_raw)
          [] opcode = "MiscMem" -> ExecMiscMem(c)
          [] opcode = "OpImm"   -> ExecOpImm(c, inst, rs1, rd_raw, funct3)
          [] opcode = "Op"      -> ExecOp(c, rs1, rs2, rd_raw, funct3, funct7)
          [] opcode = "System"  -> ExecSystem(c, inst, rs1, rs1_raw, rd_raw, funct3)
          [] opcode = "Auipc"   -> ExecAuipc(c, inst, rd_raw)
          [] opcode = "Lui"     -> ExecLui(c, inst, rd_raw)
          [] opcode = "Amo"     -> ExecAmo(c, rs1, rs2, rd_raw, funct3, funct7)
          [] OTHER              -> Panic(c, PanicOpcode)

\* line 84
Fetch(c) == lw(c.mem, c.pc)

step(c) ==
    LET inst == Fetch(c)
    IN  IF inst.ok THEN Execute(c, inst.val) ELSE Panic(c, inst.err)

----------------------------------------------------------------------------
(* Core::new, Core::reset, Core::load_image, core.rs lines 54-75 *)

new ==
    [mem |-> EmptyArr, csrs |-> EmptyArr, reg |-> [r \in 0..(NUM_REGS - 1) |-> Zero],
     pc |-> Base, cycle_count |-> 0]

\* reset without line 66
reset_KeepPc(c) == [c EXCEPT !.reg = [r \in 0..(NUM_REGS - 1) |-> Zero]]

reset(c) == [c EXCEPT !.reg = [r \in 0..(NUM_REGS - 1) |-> Zero], !.pc = Base]

\* data, a sequence of at most MEMORY_SIZE bytes, zero-padded to the array
load_image(c, data) ==
    [reset(c) EXCEPT
        !.mem = [o \in {i - 1 : i \in {j \in DOMAIN data : data[j] # 0}} |-> data[o + 1]]]

----------------------------------------------------------------------------
(* Instruction words, packed by the RISC-V encoding laws: the images the   *)
(* loader is given are built from these.                                   *)

\* the word whose bits lo..lo+n-1 hold v, for each <<lo, n, v>> of parts
Pack(parts) ==
    FromBits(LAMBDA i :
        LET p == CHOOSE q \in {parts[k] : k \in DOMAIN parts} :
                     q[1] <= i /\ i < q[1] + q[2]
        IN  (p[3] \div Pow2(i - p[1])) % 2)

Opc(class5) == class5 * 4 + 3

EncR(funct7, rs2, rs1, funct3, rd, class5) ==
    Pack(<< <<0, 7, Opc(class5)>>, <<7, 5, rd>>, <<12, 3, funct3>>,
            <<15, 5, rs1>>, <<20, 5, rs2>>, <<25, 7, funct7>> >>)

\* imm in -2048..2047
EncI(imm, rs1, funct3, rd, class5) ==
    Pack(<< <<0, 7, Opc(class5)>>, <<7, 5, rd>>, <<12, 3, funct3>>,
            <<15, 5, rs1>>, <<20, 12, imm % 4096>> >>)

EncS(imm, rs2, rs1, funct3, class5) ==
    Pack(<< <<0, 7, Opc(class5)>>, <<7, 5, (imm % 4096) % 32>>, <<12, 3, funct3>>,
            <<15, 5, rs1>>, <<20, 5, rs2>>, <<25, 7, (imm % 4096) \div 32>> >>)

\* the B-type packing law: imm in -4096..4094, even; low7 fills bits 6:0
PackB(imm, rs2, rs1, funct3, low7) ==
    LET v == imm % 8192
    IN  Pack(<< <<0, 7, low7>>, <<7, 1, (v \div 2048) % 2>>, <<8, 4, (v \div 2) % 16>>,
                <<12, 3, funct3>>, <<15, 5, rs1>>, <<20, 5, rs2>>,
                <<25, 6, (v \div 32) % 64>>, <<31, 1, v \div 4096>> >>)

EncB(imm, rs2, rs1, funct3) == PackB(imm, rs2, rs1, funct3, Opc(24))

\* imm20 in 0..2^20-1: the upper twenty bits
EncU(imm20, rd, class5) ==
    Pack(<< <<0, 7, Opc(class5)>>, <<7, 5, rd>>, <<12, 20, imm20>> >>)

\* the J-type packing law: imm in -2^20..2^20-2, even
PackJ(imm, rd, low7) ==
    LET v == imm % 2097152
    IN  Pack(<< <<0, 7, low7>>, <<7, 5, rd>>, <<12, 8, (v \div 4096) % 256>>,
                <<20, 1, (v \div 2048) % 2>>, <<21, 10, (v \div 2) % 1024>>,
                <<31, 1, v \div 1048576>> >>)

EncJ(imm, rd) == PackJ(imm, rd, Opc(27))

ADDI(rd, rs1, imm) == EncI(imm, rs1, 0, rd, 4)
LUI(rd, imm20) == EncU(imm20, rd, 13)
LOAD(funct3, rd, rs1, imm) == EncI(imm, rs1, funct3, rd, 0)
STORE(funct3, rs2, rs1, imm) == EncS(imm, rs2, rs1, funct3, 8)
EBREAK == EncI(1, 0, 0, 0, 28)
ECALL == EncI(0, 0, 0, 0, 28)

\* the bytes of a program, little-endian, as the image file holds them
RECURSIVE Image(_)
Image(prog) ==
    IF prog = <<>> THEN <<>>
    ELSE <<Field(Head(prog), 0, 8), Field(Head(prog), 8, 8),
           Field(Head(prog), 16, 8), Field(Head(prog), 24, 8)>> \o Image(Tail(prog))

----------------------------------------------------------------------------
(* The images given to the loader.  A program sets x1 and x2 with LUI and  *)
(* ADDI, runs the instructions under test on them and ends with EBREAK.    *)

MaxSteps == 7

MaxResets == 1

\* x1: 0, 1, 0xFFFFFFFF, 0x80000000, 0x7FFFF000
SetupX1 ==
    { <<>>, <<ADDI(1, 0, 1)>>, <<ADDI(1, 0, -1)>>, <<LUI(1, 524288)>>,
      <<LUI(1, 524287)>> }

\* x2: 1, 0xFFFFFFFF, 0x80000000
SetupX2 ==
    { <<ADDI(2, 0, 1)>>, <<ADDI(2, 0, -1)>>, <<LUI(2, 524288)>> }

AddiTests ==
    { ADDI(3, 1, -1), ADDI(3, 1, 1), ADDI(3, 1, 2047), ADDI(3, 1, -2048),
      ADDI(0, 1, 5), ADDI(1, 1, -1) }

AluTests ==
    { EncI(-1, 1, f, 3, 4) : f \in {2, 3, 4, 6, 7} }
    \cup { EncI(4, 1, 1, 3, 4), EncI(4, 1, 5, 3, 4), EncI(1028, 1, 5, 3, 4) }
    \cup { EncR(0, 2, 1, f, 3, 12) : f \in 0..7 }
    \cup { EncR(32, 2, 1, 0, 3, 12), EncR(32, 2, 1, 5, 3, 12) }

BranchTests ==
    { EncB(imm, 2, 1, f) : imm \in {8, -4}, f \in 0..7 }

JumpTests ==
    { EncJ(8, 3), EncJ(-4, 3), EncJ(8, 0),
      EncI(0, 1, 0, 3, 25), EncI(3, 1, 0, 3, 25), EncI(4, 1, 0, 1, 25),
      EncU(1, 3, 5), EncU(1048575, 3, 5), EncU(74565, 0, 13),
      EncI(0, 0, 0, 0, 3) }

FaultTests ==
    { LOAD(f, 3, 1, 0) : f \in {3, 6, 7} }
    \cup { LOAD(3, 3, 1, -1) }
    \cup { STORE(f, 2, 1, 0) : f \in 3..7 }
    \cup { ECALL, EncI(0, 1, 0, 3, 28), EncI(2, 0, 0, 0, 28), EncI(0, 1, 4, 3, 28),
           W(65535, 65535), U32(127) }
    \cup { EncI(0, 1, 0, 3, k) : k \in {1, 2, 10, 30} }

SystemTests ==
    { EncI(768, 1, f, 3, 28) : f \in {1, 2, 3, 5, 6, 7} }
    \cup { EncI(-1, 2, 1, 0, 28), EncI(-1, 0, 0, 0, 28) }

AmoTests ==
    { EncR(x * 4, 2, 1, 2, 3, 11) : x \in {2, 3, 1, 0, 5} }
    \cup { EncR(0, 2, 1, 3, 3, 11) }

\* the instructions under test that read x1 only, run on every x1
UnaryPrograms ==
    { a \o <<t, EBREAK>> : a \in SetupX1, t \in AddiTests \cup FaultTests }

\* branches, run on every pair of x1 and x2
BinaryPrograms ==
    { a \o b \o <<t, EBREAK>> : a \in SetupX1, b \in SetupX2, t \in BranchTests }

\* the other classes, run on x1 = 0x80000000 or 1 and x2 = 0xFFFFFFFF
OtherPrograms ==
    { a \o <<ADDI(2, 0, -1), t, EBREAK>> :
        a \in { <<LUI(1, 524288)>>, <<ADDI(1, 0, 1)>> },
        t \in AluTests \cup JumpTests \cup SystemTests \cup AmoTests }

RegPrograms == UnaryPrograms \cup BinaryPrograms \cup OtherPrograms

\* x1 and the immediate of the access: addresses inside memory (0x80001000,
\* 0x80000FFE), at and across its end (0x81000000, 0x80FFFFFD..0x80FFFFFF),
\* across the top of the unmapped region (0x7FFFFFFD..0x7FFFFFFF), at 0 and
\* at 0xFFFFFFFE
MemAddrs ==
    { <<a, imm>> : a \in { <<LUI(1, 524289)>>, <<LUI(1, 528384)>>, <<>> },
                   imm \in {0, -2} }
    \cup { <<a, imm>> :
            a \in { <<LUI(1, 528383), ADDI(1, 1, 2047), ADDI(1, 1, 1)>>,
                    <<LUI(1, 524287), ADDI(1, 1, 2047), ADDI(1, 1, 1)>> },
            imm \in {2045, 2046, 2047} }

\* x2: 0xFFFFFFFF, 0x12348000
SetupVal == { <<ADDI(2, 0, -1)>>, <<LUI(2, 74568)>> }

\* a store and the load that reads it back: funct3 of each
StoreLoad == { <<0, 0>>, <<0, 4>>, <<1, 1>>, <<1, 5>>, <<2, 2>> }

MemPrograms ==
    { am[1] \o v \o <<STORE(sl[1], 2, 1, am[2]), LOAD(sl[2], 3, 1, am[2]), EBREAK>> :
        am \in MemAddrs, v \in SetupVal, sl \in StoreLoad }

\* amo subtype x on the word w stored at 0x80001000, operand in x2, result
\* in rd
AmoProgram(w, operand, x, rd) ==
    << LUI(1, 524289), ADDI(2, 0, w), STORE(2, 2, 1, 0), operand,
       EncR(x * 4, 2, 1, 2, rd, 11), EBREAK >>

\* memory 5 or 0xFFFFFFFF, operand 3 or 0x80000000, every subtype; and rd
\* the same register as rs1 or rs2
AmoPrograms ==
    { AmoProgram(w, operand, x, 3) :
        w \in {5, -1}, operand \in { ADDI(2, 0, 3), LUI(2, 524288) },
        x \in {2, 1, 0, 4, 12, 8, 16, 20, 24, 28} }
    \cup { AmoProgram(5, ADDI(2, 0, 3), x, rd) : x \in {2, 1, 0, 16}, rd \in {1, 2} }

\* CSR c is set to 0x42, x3 to 0x41, then the form f runs on CSR c with the
\* rs1 field 3 (operand x3 = 0x41, or the immediate 3) and result in rd
CsrProgram(c, f, rd) ==
    << ADDI(1, 0, 66), EncI(c, 1, 1, 0, 28), ADDI(3, 0, 65),
       EncI(c, 3, f, rd, 28), EBREAK >>

\* CSRRW of 0x42 to CSR c with result in x3, then CSRRS of 0x1 with result
\* in x4
CsrExample(c) ==
    << ADDI(1, 0, 66), EncI(c, 1, 1, 3, 28), ADDI(1, 0, 1),
       EncI(c, 1, 2, 4, 28), EBREAK >>

CsrPrograms ==
    { CsrProgram(c, f, rd) : c \in {768, 4095}, f \in {1, 2, 3, 5, 6, 7},
                             rd \in {4, 0, 3} }
    \cup { CsrExample(768) }

\* 0x12345678 stored at 0x80001000 with width funct3 w, then a load of
\* funct3 f at offset k
ByteOrderProgram(w, f, k) ==
    << LUI(1, 524289), LUI(2, 74565), ADDI(2, 2, 1656), STORE(w, 2, 1, 0),
       LOAD(f, 3, 1, k), EBREAK >>

ByteOrderPrograms ==
    { ByteOrderProgram(2, 4, k) : k \in 0..3 }
    \cup { ByteOrderProgram(1, 4, k) : k \in 0..1 }
    \cup { ByteOrderProgram(2, 5, k) : k \in {0, 1, 2} }

LR(rd) == EncR(8, 0, 1, 2, rd, 11)
SC(rd) == EncR(12, 2, 1, 2, rd, 11)

\* a store-conditional of x2 = 7 at 0x80001000 with no load-reserved before
\* it, straight after one, and after one and a store of x1 to the address
ScPrograms ==
    { << LUI(1, 524289), ADDI(2, 0, 7), SC(2), EBREAK >>,
      << LUI(1, 524289), ADDI(2, 0, 7), LR(3), SC(2), EBREAK >>,
      << LUI(1, 524289), ADDI(2, 0, 7), LR(3), STORE(2, 1, 1, 0), SC(2), EBREAK >> }

\* jumps into the unmapped region: to its last word 0x7FFFFFFC, from where
\* the walk re-enters memory at 0x80000000, and to 0x7FFFF7FC
WalkPrograms ==
    { << LUI(1, 524287), ADDI(1, 1, 2047), ADDI(1, 1, 1), EncI(2044, 1, 0, 0, 25),
         EBREAK >>,
      << LUI(1, 524287), EncI(2044, 1, 0, 3, 25), EBREAK >> }

Programs == RegPrograms \cup MemPrograms \cup AmoPrograms
            \cup CsrPrograms \cup ByteOrderPrograms
            \cup ScPrograms \cup WalkPrograms

Images == { Image(prog) : prog \in Programs }

----------------------------------------------------------------------------
(* The operations on the core *)

Core ==
    [mem |-> mem, csrs |-> csrs, reg |-> reg, pc |-> pc, cycle_count |-> cycle_count]

SetCore(c) ==
    /\ mem' = c.mem
    /\ csrs' = c.csrs
    /\ reg' = c.reg
    /\ pc' = c.pc
    /\ cycle_count' = c.cycle_count

Init ==
    /\ mem = new.mem
    /\ csrs = new.csrs
    /\ reg = new.reg
    /\ pc = new.pc
    /\ cycle_count = new.cycle_count
    /\ status = "running"
    /\ halt_report = <<>>
    /\ overflow_checks \in BOOLEAN
    /\ last = [op |-> "new", outcome |-> "done", fetched |-> FALSE, inst |-> Zero,
               pre |-> new, retired |-> 0, resets |-> 0]
    /\ probe = [law |-> "none", v |-> 0, word |-> Zero, out |-> Zero, done |-> FALSE]

\* the loader, run once on the fresh core
LoadImage(data) ==
    /\ status = "running"
    /\ last.op = "new"
    /\ Len(data) <= MEMORY_SIZE
    /\ SetCore(load_image(Core, data))
    /\ last' = [last EXCEPT !.op = "load_image", !.outcome = "done", !.pre = Core]
    /\ UNCHANGED <<status, halt_report, overflow_checks, probe>>

Reset ==
    /\ status = "running"
    /\ last.resets < MaxResets
    /\ SetCore(reset(Core))
    /\ last' = [last EXCEPT !.op = "reset", !.outcome = "done", !.pre = Core,
                            !.resets = @ + 1]
    /\ UNCHANGED <<status, halt_report, overflow_checks, probe>>

\* one iteration of Core::run
Step ==
    /\ status = "running"
    /\ cycle_count < MaxSteps
    /\ \E r \in {step(Core)} :
         /\ SetCore(r.core)
         /\ status' = IF r.outcome \in {"retired", "aborted"} THEN "running"
                      ELSE r.outcome
         /\ halt_report' = r.report
         /\ last' = [last EXCEPT !.op = "step", !.outcome = r.outcome,
                                 !.fetched = Fetch(Core).ok,
                                 !.inst = Fetch(Core).val, !.pre = Core,
                                 !.retired = IF r.outcome = "retired" THEN @ + 1 ELSE @]
    /\ UNCHANGED <<overflow_checks, probe>>

Next ==
    \/ \E data \in Images : LoadImage(data)
    \/ Reset
    \/ Step

Spec == Init /\ [][Next]_vars

----------------------------------------------------------------------------
(* What the last operation was, read from the record kept of it *)

Stepped == last.op = "step" /\ last.fetched

Pre == last.pre

LClass  == Decode(last.inst)
LRd     == Field(last.inst, 7, 5)
LRs1    == Field(last.inst, 15, 5)
LRs2    == Field(last.inst, 20, 5)
LFunct3 == Field(last.inst, 12, 3)

\* the operand values the last step read
LRs1Val == Pre.reg[LRs1]
LRs2Val == Pre.reg[LRs2]

Retired == last.outcome = "retired"
Aborted == last.outcome = "aborted"
Panicked == last.outcome \notin {"retired", "aborted", "exited", "done"}

ZeroRegs == [r \in 0..(NUM_REGS - 1) |-> Zero]

\* pc + 4 without regard to overflow
PcPlus4(c) == WrapAdd(c.pc, Four)

----------------------------------------------------------------------------
(* C1: at every step boundary register 0 holds 0: whenever the core is     *)
(* running (constructed, reset, loaded, or back from a step that retired   *)
(* or aborted) reg[0] = 0, so that every step read 0 from it; this holds   *)
(* also after a step whose rd field is 0 and that wrote a non-zero value.  *)
C1_X0IsZero ==
    /\ status = "running" => reg[0] = Zero
    /\ last.op = "step" => Pre.reg[0] = Zero
    /\ Stepped /\ LRs1 = 0 => LRs1Val = Zero
    /\ Stepped /\ LRs2 = 0 => LRs2Val = Zero

\* an ADDI into x0 of a non-zero sum has retired
C1_Witness ==
    /\ Stepped /\ Retired
    /\ LClass = "OpImm" /\ LFunct3 = 0 /\ LRd = 0
    /\ WrapAdd(LRs1Val, read_imm_i(last.inst)) # Zero
    /\ reg[0] = Zero

(* C2: cycle_count never decreases, grows by exactly 1 on a step that      *)
(* retires, is unchanged by any other step and by reset and load_image, so *)
(* it equals the number of steps retired since construction; the count     *)
(* EBREAK reports is that number, the EBREAK step itself not counted.      *)
C2_CycleCount ==
    /\ cycle_count = last.retired
    /\ last.op = "step" =>
          cycle_count = Pre.cycle_count + (IF Retired THEN 1 ELSE 0)
    /\ last.op # "step" => cycle_count = Pre.cycle_count
    /\ halt_report # <<>> =>
          /\ status = "exited"
          /\ halt_report[1].cycle_count = last.retired
          /\ cycle_count = last.retired

\* EBREAK has reported after at least three retired steps
C2_Witness ==
    /\ status = "exited"
    /\ halt_report # <<>>
    /\ halt_report[1].cycle_count = last.retired
    /\ last.retired >= 3

\* a step on an unrecognised funct3 has aborted after at least one retired step
C2_AbortWitness == Stepped /\ Aborted /\ cycle_count >= 1

\* the instructions whose step returns early: lines 126-129, 139-142, 154-157
AbortClass(inst) ==
    \/ Decode(inst) = "Load" /\ Field(inst, 12, 3) \in {3, 6, 7}
    \/ Decode(inst) = "Store" /\ Field(inst, 12, 3) \in 3..7
    \/ Decode(inst) = "Branch" /\ Field(inst, 12, 3) \in {2, 3}

(* C3: a step on a Load with funct3 in {3,6,7}, a Store with funct3 in     *)
(* {3..7} or a Branch with funct3 in {2,3} changes nothing: pc,            *)
(* cycle_count, the registers, the CSRs and memory are as before it; and   *)
(* when the step has returned, the next step fetches the same word and     *)
(* again changes nothing (a stall).                                        *)
C3_AbortChangesNothing ==
    Stepped /\ AbortClass(last.inst) =>
        /\ Core = Pre
        /\ ~Retired
        /\ status = "running" =>
              /\ Fetch(Core).val = last.inst
              /\ step(Core).core = Core
              /\ step(Core).outcome = "aborted"

\* each of the three classes has stalled with non-zero operands in the registers
C3_Witness ==
    /\ Stepped /\ Aborted /\ AbortClass(last.inst)
    /\ LClass = "Branch"
    /\ LRs1Val # Zero /\ LRs2Val # Zero
    /\ pc # Base

C3_LoadWitness == Stepped /\ Aborted /\ LClass = "Load" /\ LFunct3 = 7

C3_StoreWitness == Stepped /\ Aborted /\ LClass = "Store" /\ LFunct3 = 3

(* C4, as stated: after construction and after reset() in any reachable    *)
(* state all 32 registers are 0, all CSR slots are 0, memory is all zero   *)
(* and pc = 0x8000_0000.                                                   *)
C4_Original ==
    last.op \in {"new", "reset"} =>
        /\ reg = ZeroRegs
        /\ csrs = EmptyArr
        /\ mem = EmptyArr
        /\ pc = Base

(* C4, amended: after construction all registers, CSR slots and memory     *)
(* bytes are 0 and pc = 0x8000_0000; after reset() all 32 registers are 0  *)
(* and pc = 0x8000_0000, while the CSR slots, the memory bytes and         *)
(* cycle_count are what they were before the reset.                        *)
C4_Reset ==
    /\ last.op = "new" => Core = new
    /\ last.op = "reset" =>
          /\ reg = ZeroRegs
          /\ pc = Base
          /\ csrs = Pre.csrs
          /\ mem = Pre.mem
          /\ cycle_count = Pre.cycle_count

\* reset() has run on a core with a written CSR, a loaded image, non-zero
\* registers and an advanced pc
C4_Witness ==
    /\ last.op = "reset"
    /\ csrs # EmptyArr /\ mem # EmptyArr
    /\ Pre.reg # ZeroRegs /\ Pre.pc # Base
    /\ reg = ZeroRegs /\ pc = Base

----------------------------------------------------------------------------
(* The memory access of the last step, when it was a Load or a Store *)

MemStep ==
    /\ Stepped
    /\ \/ LClass = "Load" /\ LFunct3 \in {0, 1, 2, 4, 5}
       \/ LClass = "Store" /\ LFunct3 \in {0, 1, 2}

LImm == IF LClass = "Store" THEN read_imm_s(last.inst) ELSE read_imm_i(last.inst)

\* the address, and whether the build let the sum through
LAddr == WrapAdd(LRs1Val, LImm)
LAddrComputed == ~(overflow_checks /\ AddOverflows(LRs1Val, LImm))

LWidth == IF LFunct3 \in {0, 4} THEN 1 ELSE IF LFunct3 \in {1, 5} THEN 2 ELSE 4

\* every byte of the n at a has bit 31 clear
AllUnmapped(a, n) == ~Mapped(a) /\ Offset(a) <= 2147483647 - (n - 1)

\* every byte of the n at a has bit 31 set and lies in the backing array
InRange(a, n) == Mapped(a) /\ Offset(a) <= MEMORY_SIZE - n

\* a has bit 31 set and one of the n bytes at a lies beyond the backing array
BeyondEnd(a, n) == Mapped(a) /\ Offset(a) > MEMORY_SIZE - n

\* x sign-extended from 8 bits, and from 12 bits, to 32
SExt8(x) == IF x >= 128 THEN W(65535, 65280 + x) ELSE U32(x)
SExt12(x) == IF x >= 2048 THEN W(65535, 61440 + x) ELSE U32(x)

(* C5, as stated: a load from an address with bit 31 clear returns 0, and  *)
(* a store to one leaves every byte of the backing array unchanged and     *)
(* does not fault, for every width, also when the access starts at         *)
(* 0x7FFFFFFD..0x7FFFFFFF and its later bytes have bit 31 set.             *)
C5_Original ==
    MemStep /\ LAddrComputed /\ ~Mapped(LAddr) =>
        /\ Retired
        /\ LClass = "Load" => reg[LRd] = Zero
        /\ LClass = "Store" => mem = Pre.mem

(* C5, amended: when every byte of the access has bit 31 clear (a byte at  *)
(* any such address, a halfword starting at most at 0x7FFFFFFE, a word     *)
(* starting at most at 0x7FFFFFFC) a load returns 0 and a store leaves     *)
(* every byte of the backing array unchanged and does not fault; an access *)
(* that starts at 0x7FFFFFFD..0x7FFFFFFF and crosses into addresses with   *)
(* bit 31 set does not fault either, but its crossing bytes are read from, *)
(* or written to, the backing array from offset 0.                         *)
C5_Unmapped ==
    MemStep /\ LAddrComputed /\ ~Mapped(LAddr) =>
        /\ Retired
        /\ AllUnmapped(LAddr, LWidth) /\ LClass = "Load" => reg[LRd] = Zero
        /\ AllUnmapped(LAddr, LWidth) /\ LClass = "Store" => mem = Pre.mem
        /\ ~AllUnmapped(LAddr, LWidth) /\ LClass = "Load" /\ LRd # 0 =>
              \A k \in 0..(LWidth - 1) :
                  Field(reg[LRd], 8 * k, 8) =
                      IF k > 2147483647 - Offset(LAddr)
                      THEN ArrGet(Pre.mem, k - 1 - (2147483647 - Offset(LAddr)), 0)
                      ELSE 0
        /\ ~AllUnmapped(LAddr, LWidth) /\ LClass = "Store" =>
              \A k \in 1..(LWidth - 1) :
                  k > 2147483647 - Offset(LAddr) =>
                      ArrGet(mem, k - 1 - (2147483647 - Offset(LAddr)), 0)
                          = Field(LRs2Val, 8 * k, 8)

\* a halfword of 0xFFFF has been stored at 0x7FFFFFFE, entirely unmapped
C5_Witness ==
    /\ MemStep /\ Retired /\ LClass = "Store" /\ LFunct3 = 1
    /\ LAddr = W(32767, 65534)
    /\ Field(LRs2Val, 0, 16) = 65535
    /\ mem = Pre.mem

\* a word load at 0 into x3 has returned 0
C5_LoadWitness ==
    /\ MemStep /\ Retired /\ LClass = "Load" /\ LFunct3 = 2
    /\ LAddr = Zero /\ LRd = 3 /\ reg[3] = Zero

\* a word stored at 0x7FFFFFFD has changed the byte at offset 0
C5_CrossingWitness ==
    /\ MemStep /\ Retired /\ LClass = "Store" /\ LFunct3 = 2
    /\ LAddr = W(32767, 65533)
    /\ ArrGet(mem, 0, 0) # ArrGet(Pre.mem, 0, 0)

(* C6, as stated: a load or store at an address with bit 31 set that       *)
(* touches a byte whose offset is at or beyond the capacity of the backing *)
(* array faults, and a faulting store leaves every byte of the backing     *)
(* array unchanged, also when its first bytes are in range.                *)
C6_Original ==
    MemStep /\ LAddrComputed /\ BeyondEnd(LAddr, LWidth) =>
        /\ Panicked
        /\ mem = Pre.mem

\* the part of C6 the code keeps: the access faults, on the index
C6_Faults ==
    MemStep /\ LAddrComputed /\ BeyondEnd(LAddr, LWidth) =>
        Panicked

\* a word store at 0x80FFFFFD has faulted after writing its first three bytes
C6_PartialStore ==
    /\ MemStep /\ Panicked /\ LClass = "Store" /\ LFunct3 = 2
    /\ LAddr = W(33023, 65533)
    /\ ArrGet(mem, MEMORY_SIZE - 3, 0) # ArrGet(Pre.mem, MEMORY_SIZE - 3, 0)

(* C7: a word store of v to an in-range mapped address followed by a word  *)
(* load from it puts v in rd; a byte store of b followed by a sign-        *)
(* extending byte load puts b sign-extended from 8 bits in rd, and         *)
(* followed by a zero-extending byte load puts b zero-extended in rd       *)
(* (rd other than x0, both steps retiring).                                *)
C7_RoundTrip ==
    [][ ( /\ MemStep /\ Retired /\ LClass = "Store"
          /\ InRange(LAddr, LWidth)
          /\ MemStep' /\ Retired' /\ LClass' = "Load"
          /\ LAddr' = LAddr /\ LRd' # 0 )
        =>
        ( /\ LFunct3 = 2 /\ LFunct3' = 2 => reg'[LRd'] = LRs2Val
          /\ LFunct3 = 0 /\ LFunct3' = 0 => reg'[LRd'] = SExt8(Field(LRs2Val, 0, 8))
          /\ LFunct3 = 0 /\ LFunct3' = 4 => reg'[LRd'] = U32(Field(LRs2Val, 0, 8)) )
      ]_vars

\* a sign-extending byte load at 0x80001000, beyond the image, has put
\* 0xFFFFFFFF in x3: the byte 0xFF there was stored by the step before
C7_Witness ==
    /\ MemStep /\ Retired /\ LClass = "Load" /\ LFunct3 = 0
    /\ LAddr = W(32768, 4096) /\ LRd = 3
    /\ ArrGet(Pre.mem, 4096, 0) = 255
    /\ reg[3] = W(65535, 65535)

C7_ZeroExtWitness ==
    /\ MemStep /\ Retired /\ LClass = "Load" /\ LFunct3 = 4
    /\ LAddr = W(32768, 4096) /\ LRd = 3
    /\ ArrGet(Pre.mem, 4096, 0) = 255
    /\ reg[3] = U32(255)

C7_WordWitness ==
    /\ MemStep /\ Retired /\ LClass = "Load" /\ LFunct3 = 2
    /\ LAddr = W(32768, 4096) /\ LRd = 3
    /\ reg[3] = W(4660, 32768) /\ Pre.reg[2] = W(4660, 32768)

IsAddi == Stepped /\ LClass = "OpImm" /\ LFunct3 = 0

AddiSum == WrapAdd(LRs1Val, SExt12(Field(last.inst, 20, 12)))

(* C8, as stated: after a step on any ADDI, for every rs1 and immediate,   *)
(* rd = (rs1 + sign_extend(imm12)) mod 2^32 from the pre-step rs1, pc has  *)
(* advanced by 4, the step has retired and register 0 is 0.                *)
C8_Original ==
    IsAddi =>
        /\ Retired
        /\ reg[LRd] = (IF LRd = 0 THEN Zero ELSE AddiSum)
        /\ pc = PcPlus4(Pre)
        /\ reg[0] = Zero

\* the part of C8 the code keeps: the claim holds of every ADDI whose sum
\* fits 32 bits, and of every ADDI in a build without overflow checks
C8_WhenNoOverflowPanic ==
    IsAddi /\ ~(overflow_checks /\ AddOverflows(LRs1Val, read_imm_i(last.inst))) =>
        /\ Retired
        /\ reg[LRd] = (IF LRd = 0 THEN Zero ELSE AddiSum)
        /\ pc = PcPlus4(Pre)
        /\ reg[0] = Zero

\* ADDI x3, x1, -1 on x1 = 1 has panicked on the overflow of 1 + 0xFFFFFFFF
C8_OverflowPanic ==
    /\ IsAddi /\ last.outcome = PanicAdd
    /\ LRs1Val = One /\ Field(last.inst, 20, 12) = 4095

IsBranch == Stepped /\ LClass = "Branch" /\ LFunct3 \in {0, 1, 4, 5, 6, 7}

\* the B-immediate, read off the instruction word field by field
BImm ==
    LET v == Bit(last.inst, 31) * 4096 + Bit(last.inst, 7) * 2048
             + Field(last.inst, 25, 6) * 32 + Field(last.inst, 8, 4) * 2
    IN  IF v >= 4096 THEN W(65535, 57344 + v) ELSE U32(v)

BranchTaken ==
    CASE LFunct3 = 0 -> LRs1Val = LRs2Val
      [] LFunct3 = 1 -> LRs1Val # LRs2Val
      [] LFunct3 = 4 -> LtS(LRs1Val, LRs2Val)
      [] LFunct3 = 5 -> ~LtS(LRs1Val, LRs2Val)
      [] LFunct3 = 6 -> LtU(LRs1Val, LRs2Val)
      [] OTHER       -> ~LtU(LRs1Val, LRs2Val)

(* C9, as stated: a Branch step with funct3 in {0,1,4,5,6,7} retires; pc   *)
(* becomes (pc + B-immediate) mod 2^32 when the condition of its funct3    *)
(* holds, also for a negative immediate, and pc + 4 otherwise; no          *)
(* register, CSR or memory byte changes.                                   *)
C9_Original ==
    IsBranch =>
        /\ Retired
        /\ pc = (IF BranchTaken THEN WrapAdd(Pre.pc, BImm) ELSE PcPlus4(Pre))
        /\ reg = Pre.reg /\ csrs = Pre.csrs /\ mem = Pre.mem

\* the part of C9 the code keeps: the claim holds of every branch whose
\* target sum fits 32 bits, and of every branch in a build without
\* overflow checks; a branch that panics changes nothing
C9_WhenNoOverflowPanic ==
    IsBranch =>
        /\ reg = Pre.reg /\ csrs = Pre.csrs /\ mem = Pre.mem
        /\ ~(overflow_checks /\ BranchTaken /\ AddOverflows(Pre.pc, BImm)) =>
              /\ Retired
              /\ pc = (IF BranchTaken THEN WrapAdd(Pre.pc, BImm) ELSE PcPlus4(Pre))

\* a taken branch with immediate -4 has panicked on the overflow of the
\* target sum
C9_OverflowPanic ==
    /\ IsBranch /\ BranchTaken /\ last.outcome = PanicAdd
    /\ BImm = W(65535, 65532)

\* a taken branch with immediate -4 has moved pc backwards
C9_BackwardTaken ==
    /\ IsBranch /\ BranchTaken /\ Retired
    /\ BImm = W(65535, 65532) /\ LtU(pc, Pre.pc)

----------------------------------------------------------------------------
(* The immediate decoders on their own: a word is packed from a value and  *)
(* the decoder is applied to it.                                           *)

\* the other fields of the word: rs2, rs1, funct3 and bits 6:0
ImmOthers == { <<0, 0, 0, 0>>, <<31, 31, 7, 127>>, <<2, 1, 1, Opc(24)>> }

\* every 13-bit signed value with bit 0 clear
BImmValues == { 2 * h : h \in -2048..2047 }

\* even 21-bit signed values: each single bit and its negative, the two
\* ends of the range, 0 and two alternating patterns
JImmValues ==
    { s * (2 ^ k) : k \in 1..19, s \in {1, -1} }
    \cup { 0, -1048576, 1048574, 699050, -699052, -2730, 2730 }

InitImm ==
    /\ mem = new.mem /\ csrs = new.csrs /\ reg = new.reg /\ pc = new.pc
    /\ cycle_count = new.cycle_count
    /\ status = "running"
    /\ halt_report = <<>>
    /\ overflow_checks \in BOOLEAN
    /\ last = [op |-> "new", outcome |-> "done", fetched |-> FALSE, inst |-> Zero,
               pre |-> new, retired |-> 0, resets |-> 0]
    /\ \/ \E v \in BImmValues, o \in ImmOthers :
             probe = [law |-> "b", v |-> v, word |-> PackB(v, o[1], o[2], o[3], o[4]),
                      out |-> Zero, done |-> FALSE]
       \/ \E v \in JImmValues, o \in ImmOthers :
             probe = [law |-> "j", v |-> v, word |-> PackJ(v, o[2], o[4]),
                      out |-> Zero, done |-> FALSE]

ImmDecodeB ==
    /\ probe.law = "b" /\ ~probe.done
    /\ probe' = [probe EXCEPT !.out = read_imm_b(probe.word), !.done = TRUE]
    /\ UNCHANGED <<mem, csrs, reg, pc, cycle_count, status, halt_report,
                   overflow_checks, last>>

ImmDecodeJ ==
    /\ probe.law = "j" /\ ~probe.done
    /\ probe' = [probe EXCEPT !.out = read_imm_j(probe.word), !.done = TRUE]
    /\ UNCHANGED <<mem, csrs, reg, pc, cycle_count, status, halt_report,
                   overflow_checks, last>>

NextImm == ImmDecodeB \/ ImmDecodeJ

SpecImm == InitImm /\ [][NextImm]_vars

(* C10: for every 13-bit signed v with bit 0 clear, read_imm_b applied to  *)
(* the word that the B-type law packs from v returns v sign-extended to 32 *)
(* bits, whatever the other bits of the word are.                          *)
C10_RoundTripB ==
    probe.law = "b" /\ probe.done =>
        probe.out = (IF probe.v >= 0 THEN U32(probe.v) ELSE W(65535, 65536 + probe.v))

\* -4096 has been decoded from a word whose other bits are all ones
C10_Witness ==
    /\ probe.law = "b" /\ probe.done
    /\ probe.v = -4096 /\ probe.word = W(33279, 61567)
    /\ probe.out = W(65535, 61440)

\* 2048, which lives in bit 7 alone, has been decoded
C10_Bit11Witness ==
    /\ probe.law = "b" /\ probe.done
    /\ probe.v = 2048 /\ probe.word = U32(128)
    /\ probe.out = U32(2048)

----------------------------------------------------------------------------
(* Amo steps *)

LFunct7 == Field(last.inst, 25, 7)

\* the subtype of an Amo instruction: funct7 >> 2
LSubtype == LFunct7 \div 4

\* the word whose four bytes are at offsets off..off+3 of m, lowest first
WordAt(m, off) ==
    W(ArrGet(m, off + 3, 0) * 256 + ArrGet(m, off + 2, 0),
      ArrGet(m, off + 1, 0) * 256 + ArrGet(m, off, 0))

\* load-reserved, swap and the eight read-modify-write subtypes
AmoSubtypes == {2, 1, 0, 4, 12, 8, 16, 20, 24, 28}

IsAmo ==
    /\ Stepped /\ LClass = "Amo" /\ LFunct3 = 2
    /\ LSubtype \in AmoSubtypes
    /\ InRange(LRs1Val, 4)

\* the word the claim puts in memory: old is the word before the step, v
\* the pre-step rs2
AmoExpected(x, old, v) ==
    CASE x = 2  -> old
      [] x = 1  -> v
      [] x = 0  -> WrapAdd(old, v)
      [] x = 4  -> Xor(old, v)
      [] x = 12 -> And(old, v)
      [] x = 8  -> Or(old, v)
      [] x = 16 -> IF LtS(old, v) THEN old ELSE v
      [] x = 20 -> IF LtS(old, v) THEN v ELSE old
      [] x = 24 -> IF LtU(old, v) THEN old ELSE v
      [] OTHER  -> IF LtU(old, v) THEN v ELSE old

AmoOld == WordAt(Pre.mem, Offset(LRs1Val))

AmoHolds ==
    /\ Retired
    /\ reg[LRd] = (IF LRd = 0 THEN Zero ELSE AmoOld)
    /\ WordAt(mem, Offset(LRs1Val)) = AmoExpected(LSubtype, AmoOld, LRs2Val)
    /\ pc = PcPlus4(Pre)

(* C11, as stated: an Amo step with funct3 = 2 of subtype load-reserved,   *)
(* swap, add, xor, and, or, min, max, minu or maxu at an in-range mapped   *)
(* address puts the old word of memory in rd, leaves in memory the old     *)
(* word (load-reserved), the pre-step rs2 (swap) or op(old, rs2) with add  *)
(* taken mod 2^32, also when rd is rs1 or rs2, and advances pc by 4.       *)
C11_Original == IsAmo => AmoHolds

\* the part of C11 the code keeps: the claim holds of every such step but
\* the add whose sum exceeds 32 bits in a build with overflow checks
C11_WhenNoOverflowPanic ==
    IsAmo /\ ~(LSubtype = 0 /\ overflow_checks /\ AddOverflows(AmoOld, LRs2Val))
        => AmoHolds

\* an add on the memory word 0xFFFFFFFF and the operand 3 has panicked on
\* the overflow of the sum, after writing rd
C11_OverflowPanic ==
    /\ IsAmo /\ LSubtype = 0 /\ last.outcome = PanicAdd
    /\ AmoOld = W(65535, 65535) /\ LRs2Val = U32(3)
    /\ reg[3] = W(65535, 65535) /\ mem = Pre.mem

\* memory 5, operand 3: rd = 5 and memory 8
C11_AddWitness ==
    /\ IsAmo /\ LSubtype = 0 /\ Retired
    /\ AmoOld = U32(5) /\ LRs2Val = U32(3)
    /\ reg[3] = U32(5) /\ WordAt(mem, 4096) = U32(8)

\* a swap with rd the same register as rs2 has retired
C11_SameRegWitness ==
    /\ IsAmo /\ LSubtype = 1 /\ Retired /\ LRd = 2 /\ LRs2 = 2
    /\ reg[2] = U32(5) /\ WordAt(mem, 4096) = U32(3)

----------------------------------------------------------------------------
(* CSR steps *)

IsCsr == Stepped /\ LClass = "System" /\ LFunct3 \in {1, 2, 3, 5, 6, 7}

\* the CSR index: instruction bits 31:20
LCsr == Field(last.inst, 20, 12)

CsrOld == ArrGet(Pre.csrs, LCsr, Zero)

\* pre-step rs1, or the rs1 field zero-extended
CsrOperand == IF LFunct3 \in {1, 2, 3} THEN LRs1Val ELSE U32(LRs1)

CsrExpected ==
    CASE LFunct3 \in {1, 5} -> CsrOperand
      [] LFunct3 \in {2, 6} -> Or(CsrOld, CsrOperand)
      [] OTHER              -> And(CsrOld, Not(CsrOperand))

(* C12: after a step of one of the six CSR forms on CSR c = bits 31:20, rd *)
(* holds the pre-step value of CSR c (x0 stays 0), CSR c holds the operand *)
(* (RW), old OR operand (RS) or old AND NOT operand (RC), where the        *)
(* operand is the pre-step rs1 or the zero-extended rs1 field; every other *)
(* CSR slot and all memory are unchanged and pc has advanced by 4.         *)
C12_CsrForms ==
    IsCsr =>
        /\ Retired
        /\ reg[LRd] = (IF LRd = 0 THEN Zero ELSE CsrOld)
        /\ ArrGet(csrs, LCsr, Zero) = CsrExpected
        /\ \A i \in (DOMAIN csrs \cup DOMAIN Pre.csrs) \ {LCsr} :
              \* the slots outside both domains are 0 before and after
              ArrGet(csrs, i, Zero) = ArrGet(Pre.csrs, i, Zero)
        /\ mem = Pre.mem
        /\ pc = PcPlus4(Pre)

\* CSRRW of 0x42 to a zero CSR returned 0, and the CSRRS of 0x1 after it
\* has returned 0x42 and left 0x43
C12_Witness ==
    /\ IsCsr /\ LFunct3 = 2 /\ Retired /\ LRd = 4 /\ LCsr = 768
    /\ LRs1Val = One /\ CsrOld = U32(66)
    /\ reg[3] = Zero /\ reg[4] = U32(66)
    /\ ArrGet(csrs, 768, Zero) = U32(67)

\* a register clear form on CSR 4095 holding 0x42 with operand 0x41 has
\* left 0x02, with rd the same register as rs1
C12_ClearWitness ==
    /\ IsCsr /\ LFunct3 = 3 /\ Retired /\ LRd = 3 /\ LRs1 = 3 /\ LCsr = 4095
    /\ CsrOld = U32(66) /\ LRs1Val = U32(65)
    /\ reg[3] = U32(66) /\ ArrGet(csrs, 4095, Zero) = U32(2)

\* an immediate clear form with the rs1 field 3 has left 0x40
C12_ImmWitness ==
    /\ IsCsr /\ LFunct3 = 7 /\ Retired /\ LRs1 = 3
    /\ CsrOld = U32(66) /\ ArrGet(csrs, LCsr, Zero) = U32(64)

----------------------------------------------------------------------------
(* ECALL and the fatal faults *)

IsEcall ==
    /\ Stepped /\ LClass = "System" /\ LFunct3 = 0
    /\ Field(last.inst, 20, 12) = 0

\* the outcomes of the fatal decode and instruction faults
FatalFaults == {PanicOpcode, PanicExplicit, PanicAmoWidth, PanicAmoOp}

(* C13: a step that fetches ECALL ends in the 'unimplemented' outcome,     *)
(* which is none of the EBREAK exit, a fatal decode or instruction fault,  *)
(* a retired step or an aborted one; pc and cycle_count keep their values  *)
(* and no further step follows.                                            *)
C13_Ecall ==
    IsEcall =>
        /\ last.outcome = PanicTodo
        /\ status = PanicTodo
        /\ PanicTodo \notin FatalFaults \cup {"exited", "retired", "aborted",
                                              PanicIndex, PanicAdd, PanicSub}
        /\ pc = Pre.pc
        /\ cycle_count = Pre.cycle_count
        /\ ~ENABLED Next

\* ECALL has been fetched after one retired step
C13_Witness ==
    /\ IsEcall /\ last.inst = ECALL /\ status = PanicTodo
    /\ cycle_count = 1 /\ pc = W(32768, 4)

\* an ECALL word with other rd and rs1 fields has been fetched
C13_FieldsWitness ==
    /\ IsEcall /\ LRd = 3 /\ LRs1 = 1 /\ status = PanicTodo

\* bits [6:2] of the twelve opcode classes
Recognised == {0, 8, 24, 25, 27, 3, 4, 12, 28, 5, 13, 11}

LBits62 == Field(last.inst, 2, 5)

IsFatalInst ==
    /\ Stepped
    /\ \/ LBits62 \notin Recognised
       \/ LBits62 = 28 /\ LFunct3 = 4
       \/ LBits62 = 28 /\ LFunct3 = 0 /\ Field(last.inst, 20, 12) \notin {0, 1}
       \/ LBits62 = 11 /\ LFunct3 # 2
       \/ LBits62 = 11 /\ LFunct3 = 2 /\ LSubtype \notin AmoSubtypes \cup {3}

(* C14: a step on an instruction whose bits [6:2] are none of the twelve   *)
(* opcode classes, or System with funct3 = 4, or System with funct3 = 0    *)
(* and bits 31:20 not in {0, 1}, or Amo with funct3 # 2, or Amo of an      *)
(* unrecognised subtype, ends the engine with a fatal fault: cycle_count   *)
(* and pc keep their values and no later step runs.                        *)
C14_FatalFaults ==
    IsFatalInst =>
        /\ Panicked
        /\ status = last.outcome
        /\ last.outcome \in FatalFaults \cup {PanicIndex, PanicAdd}
        /\ last.outcome \in {PanicIndex, PanicAdd} => LBits62 = 11 /\ LFunct3 = 2
        /\ pc = Pre.pc
        /\ cycle_count = Pre.cycle_count
        /\ ~ENABLED Next

\* an unrecognised pattern of bits [6:2] has been fetched after a retired step
C14_Witness ==
    /\ IsFatalInst /\ LBits62 = 10 /\ status = PanicOpcode /\ cycle_count = 1

\* System with funct3 = 4, and with funct3 = 0 and bits 31:20 = 4095
C14_SystemWitness ==
    /\ IsFatalInst /\ LBits62 = 28 /\ LFunct3 = 4 /\ status = PanicExplicit

C14_Funct12Witness ==
    /\ IsFatalInst /\ LBits62 = 28 /\ LFunct3 = 0
    /\ Field(last.inst, 20, 12) = 4095 /\ status = PanicExplicit

\* Amo of another width, and Amo of an unrecognised subtype, which faults
\* after rd was written
C14_AmoWidthWitness ==
    /\ IsFatalInst /\ LBits62 = 11 /\ LFunct3 = 3 /\ status = PanicAmoWidth

C14_AmoSubtypeWitness ==
    /\ IsFatalInst /\ LBits62 = 11 /\ LSubtype = 5 /\ status = PanicAmoOp
    /\ reg[3] # Pre.reg[3]

----------------------------------------------------------------------------
(* Byte order *)

\* the byte of m at the offset of address a
ByteAt(m, a) == ArrGet(m, Offset(a), 0)

\* the halfword and the word composed from the bytes of m at a, a+1, (a+2,
\* a+3), the byte at the lowest address least significant
ComposedHalf(m, a) == ByteAt(m, WrapAdd(a, One)) * 256 + ByteAt(m, a)
ComposedWord(m, a) ==
    W(ComposedHalf(m, WrapAdd(a, U32(2))), ComposedHalf(m, a))

(* C15: at in-range mapped addresses, a byte load from a+k straight after  *)
(* a word store of v to a returns bits [8k+7:8k] of v (k = 0..3); after a  *)
(* halfword store of h, byte loads from a and a+1 return the low and the   *)
(* high byte of h; and a halfword or word load returns the value composed  *)
(* from the bytes at a, a+1, (a+2, a+3), lowest address least significant. *)
C15_ByteOrder ==
    [][ /\ ( /\ MemStep /\ Retired /\ LClass = "Store" /\ LFunct3 \in {1, 2}
             /\ InRange(LAddr, LWidth)
             /\ MemStep' /\ Retired' /\ LClass' = "Load" /\ LFunct3' = 4
             /\ LRd' # 0 )
           => \A k \in 0..(LWidth - 1) :
                 LAddr' = WrapAdd(LAddr, U32(k)) =>
                     reg'[LRd'] = U32(Field(LRs2Val, 8 * k, 8))
        /\ ( /\ MemStep' /\ Retired' /\ LClass' = "Load" /\ LRd' # 0
             /\ InRange(LAddr', LWidth') )
           => /\ LFunct3' = 2 => reg'[LRd'] = ComposedWord(Pre'.mem, LAddr')
              /\ LFunct3' \in {1, 5} =>
                    Field(reg'[LRd'], 0, 16) = ComposedHalf(Pre'.mem, LAddr')
      ]_vars

\* after the word store of 0x12345678 the byte load at a+3 has returned 0x12
C15_Witness ==
    /\ MemStep /\ Retired /\ LClass = "Load" /\ LFunct3 = 4
    /\ LAddr = W(32768, 4099) /\ Pre.reg[2] = W(4660, 22136)
    /\ reg[3] = U32(18)

\* after the halfword store of 0x5678 the byte load at a+1 has returned 0x56
C15_HalfWitness ==
    /\ MemStep /\ Retired /\ LClass = "Load" /\ LFunct3 = 4
    /\ LAddr = W(32768, 4097) /\ Pre.reg[2] = W(4660, 22136)
    /\ ByteAt(Pre.mem, W(32768, 4098)) = 0
    /\ reg[3] = U32(86)

\* a halfword load at a+1 of the word 0x12345678 has returned 0x3456
C15_ComposedWitness ==
    /\ MemStep /\ Retired /\ LClass = "Load" /\ LFunct3 = 5
    /\ LAddr = W(32768, 4097) /\ reg[3] = U32(13398)

----------------------------------------------------------------------------
(* Halfword loads *)

IsLoadHalf ==
    /\ MemStep /\ LClass = "Load" /\ LFunct3 \in {1, 5}
    /\ LAddrComputed /\ InRange(LAddr, 2) /\ LRd # 0

LoadedHalf == ComposedHalf(Pre.mem, LAddr)

\* x sign-extended from 16 bits to 32
SExt16(x) == IF x >= 32768 THEN W(65535, x) ELSE U32(x)

(* C16, as stated: a Load step with funct3 = 1 puts in rd the halfword at  *)
(* rs1 + I-immediate sign-extended from 16 to 32 bits (0x8000 in memory    *)
(* gives 0xFFFF8000), and funct3 = 5 puts the zero-extended halfword       *)
(* (0x00008000).                                                           *)
C16_Original ==
    IsLoadHalf =>
        /\ Retired
        /\ LFunct3 = 1 => reg[LRd] = SExt16(LoadedHalf)
        /\ LFunct3 = 5 => reg[LRd] = U32(LoadedHalf)

\* what the code does: both halfword loads zero-extend
C16_BothZeroExtend ==
    IsLoadHalf => Retired /\ reg[LRd] = U32(LoadedHalf)

\* a funct3 = 1 load of the halfword 0x8000 has put 0x00008000 in x3
C16_NoSignExtension ==
    /\ IsLoadHalf /\ LFunct3 = 1 /\ Retired /\ LRd = 3
    /\ LoadedHalf = 32768 /\ reg[3] = U32(32768)

----------------------------------------------------------------------------
(* Jumps *)

IsJalr == Stepped /\ LClass = "Jalr"

\* rd after a jump that links: pre-step pc + 4, x0 staying 0
LinkHolds == reg[LRd] = (IF LRd = 0 THEN Zero ELSE PcPlus4(Pre))

JalrSum == WrapAdd(LRs1Val, SExt12(Field(last.inst, 20, 12)))

(* C17, as stated: after every Jalr step rd = pre-step pc + 4 and pc =     *)
(* (pre-step rs1 + I-immediate) mod 2^32 with bit 0 forced to 0, for every *)
(* rs1, odd ones too, so pc is even after any Jalr; the target comes from  *)
(* the pre-step rs1 also when rd and rs1 are the same register.            *)
C17_Original ==
    IsJalr =>
        /\ Retired
        /\ LinkHolds
        /\ pc = And(JalrSum, Not(One))
        /\ Bit(pc, 0) = 0

\* what the code does: bit 0 of the immediate alone is cleared, so pc has
\* bit 0 of rs1; a sum that exceeds 32 bits panics in a build with overflow
\* checks, after rd was written
C17_WhatCodeDoes ==
    LET imm == And(SExt12(Field(last.inst, 20, 12)), Not(One))
    IN  IsJalr =>
            IF overflow_checks /\ AddOverflows(LRs1Val, imm)
            THEN last.outcome = PanicAdd /\ pc = Pre.pc
            ELSE /\ Retired /\ LinkHolds
                 /\ pc = WrapAdd(LRs1Val, imm)
                 /\ Bit(pc, 0) = Bit(LRs1Val, 0)

\* jalr x3, 0(x1) on x1 = 1 has retired with pc = 1
C17_OddPc ==
    /\ IsJalr /\ Retired /\ LRs1Val = One /\ Field(last.inst, 20, 12) = 0
    /\ pc = One /\ reg[3] = PcPlus4(Pre)

\* jalr x1, 4(x1) on x1 = 0x80000000 has jumped to the pre-step x1 + 4
C17_SameRegWitness ==
    /\ IsJalr /\ Retired /\ LRd = 1 /\ LRs1 = 1
    /\ pc = W(32768, 4) /\ reg[1] = PcPlus4(Pre) /\ reg[1] # Pre.reg[1]

IsJal == Stepped /\ LClass = "Jal"

\* the J-immediate, read off the instruction word field by field
JImm ==
    LET v == Bit(last.inst, 31) * 1048576 + Field(last.inst, 12, 8) * 4096
             + Bit(last.inst, 20) * 2048 + Field(last.inst, 21, 10) * 2
    IN  IF v >= 1048576
        THEN W(65520 + (v - 1048576) \div 65536, (v - 1048576) % 65536)
        ELSE U32(v)

\* a value of -2^31..2^31-1 as a 32-bit word
Word32(v) == W((v \div 65536) % 65536, v % 65536)

(* C18, as stated: after every Jal step rd = pre-step pc + 4 and pc =      *)
(* (pre-step pc + J-immediate) mod 2^32, the J-immediate being the 21-bit  *)
(* signed value laid out in bits 31, 19:12, 20, 30:21 of the word, also    *)
(* when it is negative; and read_imm_j applied to the J-type packing of an *)
(* even 21-bit signed value returns that value.                            *)
C18_Original ==
    /\ IsJal =>
          /\ Retired
          /\ LinkHolds
          /\ pc = WrapAdd(Pre.pc, JImm)
    /\ probe.law = "j" /\ probe.done => probe.out = Word32(probe.v)

\* the part of C18 the code keeps: the claim holds of every Jal whose
\* target sum fits 32 bits and of every Jal in a build without overflow
\* checks; the others panic after rd was written
C18_WhenNoOverflowPanic ==
    IsJal =>
        IF overflow_checks /\ AddOverflows(Pre.pc, JImm)
        THEN last.outcome = PanicAdd /\ pc = Pre.pc /\ LinkHolds
        ELSE Retired /\ LinkHolds /\ pc = WrapAdd(Pre.pc, JImm)

\* read_imm_j undoes the J-type packing
C18_RoundTripJ ==
    probe.law = "j" /\ probe.done => probe.out = Word32(probe.v)

\* jal x3, -4 has panicked on the overflow of the target sum
C18_OverflowPanic ==
    /\ IsJal /\ last.outcome = PanicAdd /\ JImm = W(65535, 65532)
    /\ pc = Pre.pc

\* jal x3, -4 has moved pc backwards
C18_BackwardJump ==
    /\ IsJal /\ Retired /\ JImm = W(65535, 65532) /\ LtU(pc, Pre.pc)

\* -1048576 has been decoded from a word whose other bits are all ones
C18_RoundTripWitness ==
    /\ probe.law = "j" /\ probe.done /\ probe.v = -1048576
    /\ probe.word = W(32768, 4095) /\ probe.out = W(65520, 0)

----------------------------------------------------------------------------
(* Store-conditional *)

IsSc == Stepped /\ LClass = "Amo" /\ LFunct3 = 2 /\ LSubtype = 3

(* C19: a store-conditional step always succeeds: it stores the pre-step   *)
(* rs2 as a word at address rs1 (a word store: in memory at an in-range    *)
(* mapped address, nowhere at an unmapped one) and writes 0 to rd, in      *)
(* every reachable state, with or without a load-reserved before it and    *)
(* whatever was stored to the address in between.                          *)
C19_ScAlwaysSucceeds ==
    IsSc /\ (InRange(LRs1Val, 4) \/ AllUnmapped(LRs1Val, 4)) =>
        /\ Retired
        /\ reg[LRd] = Zero
        /\ InRange(LRs1Val, 4) => WordAt(mem, Offset(LRs1Val)) = LRs2Val
        /\ AllUnmapped(LRs1Val, 4) => mem = Pre.mem
        /\ pc = PcPlus4(Pre)

\* no load-reserved before: the third step of the run is the
\* store-conditional
C19_Witness ==
    /\ IsSc /\ Retired /\ cycle_count = 3 /\ pc = W(32768, 12)
    /\ LRd = 2 /\ Pre.reg[2] = U32(7) /\ reg[2] = Zero
    /\ WordAt(mem, 4096) = U32(7) /\ WordAt(Pre.mem, 4096) = Zero

\* after a load-reserved and a store of 0x80001000 to the address
C19_AfterStoreWitness ==
    /\ IsSc /\ Retired /\ cycle_count = 5 /\ pc = W(32768, 20)
    /\ WordAt(mem, 8) = LR(3) /\ reg[3] = Zero
    /\ WordAt(Pre.mem, 4096) = W(32768, 4096)
    /\ WordAt(mem, 4096) = U32(7) /\ reg[2] = Zero

\* straight after a load-reserved
C19_AfterLrWitness ==
    /\ IsSc /\ Retired /\ cycle_count = 4 /\ pc = W(32768, 16)
    /\ WordAt(mem, 8) = LR(3)
    /\ WordAt(mem, 4096) = U32(7) /\ reg[2] = Zero

----------------------------------------------------------------------------
(* Fetches from the unmapped region *)

IsUnmappedFetch == Stepped /\ AllUnmapped(Pre.pc, 4)

(* C20: when the four bytes at pc..pc+3 all have bit 31 clear, the fetched *)
(* word is 0, a byte load into x0 from address 0: the step retires, every  *)
(* register, CSR and memory byte keeps its value, pc advances by 4 and     *)
(* cycle_count by 1, so the engine walks through the unmapped region one   *)
(* word per step without faulting or stalling.                             *)
C20_UnmappedWalk ==
    IsUnmappedFetch =>
        /\ last.inst = Zero
        /\ Retired /\ status = "running"
        /\ reg = Pre.reg /\ csrs = Pre.csrs /\ mem = Pre.mem
        /\ pc = PcPlus4(Pre)
        /\ cycle_count = Pre.cycle_count + 1

\* the second step of a walk from pc = 1 has moved pc from 5 to 9
C20_Witness ==
    /\ IsUnmappedFetch /\ Retired
    /\ Pre.pc = U32(5) /\ pc = U32(9)
    /\ Pre.reg[3] # Zero

\* the step at the last unmapped word has brought pc back into memory
C20_ReentryWitness ==
    /\ IsUnmappedFetch /\ Retired
    /\ Pre.pc = W(32767, 65532) /\ pc = Base

----------------------------------------------------------------------------
(* The frame of a step *)

\* the address and the number of bytes a step may write: those of a Store
\* of a valid width, the word at rs1 of an Amo of width 2, none otherwise
FrameAddr == IF LClass = "Amo" THEN LRs1Val ELSE LAddr
FrameWidth ==
    CASE Stepped /\ LClass = "Store" /\ LFunct3 \in {0, 1, 2} -> LWidth
      [] Stepped /\ LClass = "Amo" /\ LFunct3 = 2             -> 4
      [] OTHER                                                -> 0

\* the offsets in the backing array of the bytes at the computed address
FrameOffsets ==
    { Offset(WrapAdd(FrameAddr, U32(k))) :
        k \in { j \in 0..(FrameWidth - 1) : Mapped(WrapAdd(FrameAddr, U32(j))) } }

(* C21: across any step, a memory byte changes only in a Store or an Amo   *)
(* step, and then it is one of the 1, 2 or 4 bytes at the computed         *)
(* address; a CSR slot changes only in a System step with funct3 in        *)
(* {1,2,3,5,6,7}, and then it is the slot of bits 31:20; and a register    *)
(* differs between the pre-step and post-step register file only if it is  *)
(* the one named by the rd field.                                          *)
C21_Frame ==
    last.op = "step" =>
        /\ \A i \in DOMAIN mem \cup DOMAIN Pre.mem :
              \* the bytes outside both domains are 0 before and after
              ArrGet(mem, i, 0) # ArrGet(Pre.mem, i, 0) =>
                  /\ Stepped /\ LClass \in {"Store", "Amo"}
                  /\ i \in FrameOffsets
        /\ \A i \in DOMAIN csrs \cup DOMAIN Pre.csrs :
              ArrGet(csrs, i, Zero) # ArrGet(Pre.csrs, i, Zero) =>
                  IsCsr /\ i = LCsr
        /\ \A r \in 0..(NUM_REGS - 1) :
              reg[r] # Pre.reg[r] => Stepped /\ r = LRd

\* a swap has changed the word at rs1 and the register rd, nothing else
C21_Witness ==
    /\ Stepped /\ Retired /\ LClass = "Amo" /\ LSubtype = 1 /\ LRd = 3
    /\ mem # Pre.mem /\ reg[3] # Pre.reg[3] /\ csrs = Pre.csrs
    /\ FrameOffsets = {4096, 4097, 4098, 4099}

\* a CSR form has changed its slot and the register rd
C21_CsrWitness ==
    /\ IsCsr /\ Retired /\ csrs # Pre.csrs /\ reg # Pre.reg /\ mem = Pre.mem

\* a halfword store has changed its two bytes
C21_StoreWitness ==
    /\ Stepped /\ Retired /\ LClass = "Store" /\ LFunct3 = 1
    /\ mem # Pre.mem /\ reg = Pre.reg /\ Cardinality(FrameOffsets) = 2

\* a word store that faulted on its last byte has changed its first three
C21_PartialWitness ==
    /\ Stepped /\ Panicked /\ LClass = "Store" /\ LFunct3 = 2
    /\ mem # Pre.mem /\ LAddr = W(33023, 65533)

====
